---- MODULE Spec2Model ----
(***************************************************************************)
(* Back-test core of streamlit_app.py: the indicator columns (ma7,         *)
(* idx_ma5, q2), the entry signal xg, and the bar-by-bar trade engine      *)
(* (stop-loss block, buy block, equity recording), preceded by the retry   *)
(* loop of fetch_data_robust that delivers the frame.                      *)
(*                                                                         *)
(* Every column of the data frame is causal (a row's value depends only on *)
(* rows at or before it), so the model materialises row i when the loop    *)
(* reaches it: LoadRow draws the raw fields of the next row and computes   *)
(* its indicator columns from the rolling windows of the rows before it.   *)
(*                                                                         *)
(* Floats are modelled as exact rationals [nan, n, d] (d = 0 is +/-inf,    *)
(* as float division by zero gives); the two exponential smoothings keep   *)
(* EmaScale fractional steps, the model's stand-in for the mantissa.       *)
(***************************************************************************)
EXTENDS Integers, Sequences, FiniteSets, TLC

VARIABLES
    pc,          \* position of the script: the fetch, then the trade-engine loop
    attempt,     \* loop variable of `for attempt in range(5)`
    met,         \* how the latest attempt of the call ended
    fetched,     \* what fetch_data_robust has returned ("pending" during the call)
    shown,       \* the message the call has put on the page (st.warning / st.error)
    family,      \* which input family the provider serves
    date_fault,  \* how the provider's dates break the ordering ("none": they do not)
    close_col,   \* df['close'] of the rows taken so far
    i,           \* number of rows already taken by `for i in range(len(df))`
    row,         \* df.iloc[i] of the iteration in progress
    prev,        \* the row before it (what .shift(1) reads)
    win_close,   \* last 7 closes            (rolling(7))
    win_idx,     \* last 5 idx_c             (rolling(5))
    win_pct,     \* last 30 pct_chg          (rolling(30))
    ema,         \* state of the four ewm(span=6, adjust=False) recursions
    tail,        \* closes of the rows after the flat lead-in (the price path)
    hot_day,     \* index of the one limit-up row of the series (-1: none)
    idx_step,    \* per-row increment of the index close (0: flat index)
    xg_col,      \* df['xg'] of the rows taken so far
    cash, shares, stop_low, b_date, b_price, trade_logs, history,
    n_entries    \* history variable: how many times the buy block has run

vars == << pc, attempt, met, fetched, shown, family, date_fault, i, row, prev,
           win_close, win_idx, win_pct, ema, xg_col, close_col, tail,
           hot_day, idx_step, cash, shares, stop_low, b_date, b_price,
           trade_logs, history, n_entries >>

call == << attempt, met, fetched, shown >>
series == << family, date_fault >>
feed == << tail, hot_day, idx_step >>
frame == << i, row, prev, win_close, win_idx, win_pct, ema, xg_col, close_col >>
account == << cash, shares, stop_low, b_date, b_price, trade_logs >>

----------------------------------------------------------------------------
(* Bounds of the input family.                                             *)

\* longest flat lead-in (rows with the same close) before the price path
MaxLead == 30
\* longest free price path after the lead-in
MaxTail == 3
\* latest row that may be the limit-up row
MaxHotDay == 2
\* fractional steps kept by the exponential smoothings
EmaScale == 343

\* program constants
Ma7Window == 7
IdxWindow == 5
PctWindow == 30
EwmSpan == 6
BiasLimit == 3
Q2Floor == -20
InitCashDefault == 100000
\* `for attempt in range(5)` and `if attempt == 4`
MaxAttempts == 5
LastAttempt == 4

\* raw input values: closes of the lead-in and of the free price path, two
\* longer price paths (a limit-up spike with a pull-back, a swing around the
\* lead-in close) and a gap up, the half-range of a row (high = close + r, low = close - r),
\* the index increments, the limit-up rows, and pct_chg of a quiet / hot row
LeadCloses == {50}
FreeCloses == {48, 50, 51}
SpikeTape == << 55, 55, 55, 47, 51, 52, 47 >>
SwingTape == << 48, 51, 50, 51, 48 >>
GapTape == << 48, 52 >>
Tapes == {SpikeTape, SwingTape, GapTape}
Ranges == {0, 1}
IdxSteps == {0, 1}
HotDays == -1 .. MaxHotDay
PctLevels == << 0, 10 >>
\* the one-trade scenario: a lead-in at 10 and a path that enters at 10 and
\* leaves at 12, rows without range
ScenarioLead == {10}
ScenarioTape == << 9, 10, 10, 10, 10, 10, 9, 10, 16, 16, 16, 12 >>
\* the families of series that satisfy the data model
Families == {"market", "scenario"}
\* a series outside the data model: a flat lead-in below zero and a path on
\* which the seven closes of one window sum to zero
ZeroLead == {-2}
ZeroTape == << 14, -2, -5, -1 >>
\* how an attempt of the fetch can end
Outcomes == {"stock_raises", "stock_empty", "index_raises", "merged", "merged_empty"}
\* dates as the provider may deliver them: in order, row 1 repeating the date
\* of row 0, or rows 0 and 1 exchanged
DateFaults == {"none", "dup", "swap"}

----------------------------------------------------------------------------
(* Float arithmetic.                                                       *)

RECURSIVE GCD(_, _)
GCD(a, b) == IF b = 0 THEN a ELSE GCD(b, a % b)

Abs(x) == IF x < 0 THEN -x ELSE x

NaN == [nan |-> TRUE, n |-> 0, d |-> 1]

Norm(n, d) ==
    IF d = 0
    THEN (IF n = 0 THEN NaN ELSE [nan |-> FALSE, n |-> (IF n > 0 THEN 1 ELSE -1), d |-> 0])
    ELSE LET s == IF d < 0 THEN -1 ELSE 1
             g == GCD(Abs(n), Abs(d))
         IN  [nan |-> FALSE, n |-> (s * n) \div g, d |-> (s * d) \div g]

F(k) == [nan |-> FALSE, n |-> k, d |-> 1]

IsNum(x) == ~x.nan /\ x.d # 0

FAdd(x, y) == IF x.nan \/ y.nan THEN NaN
              ELSE IF x.d = 0 /\ y.d = 0 THEN (IF x.n = y.n THEN x ELSE NaN)
              ELSE IF x.d = 0 THEN x
              ELSE IF y.d = 0 THEN y
              ELSE Norm(x.n * y.d + y.n * x.d, x.d * y.d)

FNeg(x) == IF x.nan THEN NaN ELSE [x EXCEPT !.n = -x.n]

FSub(x, y) == FAdd(x, FNeg(y))

FMul(x, y) ==
    IF x.nan \/ y.nan THEN NaN
    ELSE LET g1 == GCD(Abs(x.n), y.d)
             g2 == GCD(Abs(y.n), x.d)
             a == IF g1 = 0 THEN x.n ELSE x.n \div g1
             b == IF g1 = 0 THEN y.d ELSE y.d \div g1
             c == IF g2 = 0 THEN y.n ELSE y.n \div g2
             e == IF g2 = 0 THEN x.d ELSE x.d \div g2
         IN  Norm(a * c, e * b)

FDiv(x, y) ==
    IF x.nan \/ y.nan THEN NaN
    ELSE IF y.d = 0 THEN (IF x.d = 0 THEN NaN ELSE F(0))
    ELSE IF y.n = 0 THEN Norm(x.n, 0)
    ELSE FMul(x, Norm(y.d, y.n))

FAbs(x) == IF x.nan THEN NaN ELSE [x EXCEPT !.n = Abs(x.n)]

\* comparisons: anything compared with NaN is False
FLt(x, y) == ~x.nan /\ ~y.nan /\ x # y /\ x.n * y.d < y.n * x.d
FGt(x, y) == FLt(y, x)
FLe(x, y) == ~x.nan /\ ~y.nan /\ (x = y \/ x.n * y.d < y.n * x.d)
FEq(x, y) == ~x.nan /\ ~y.nan /\ x = y

\* nearest integer to n/d (d > 0)
Rnd(n, d) == (2 * n + d) \div (2 * d)

\* a float kept to EmaScale fractional steps
FRound(x) == IF ~IsNum(x) THEN x ELSE Norm(Rnd(x.n * EmaScale, x.d), EmaScale)

----------------------------------------------------------------------------
(* The data frame: raw rows and indicator columns.                         *)

Timestamp(k) == [day |-> k + 1, time |-> 0]
NoDate == [day |-> 0, time |-> 0]
ToDate(ts) == ts.day

\* the date of row k as the provider delivers it
DateOf(k, fault) ==
    CASE fault = "dup" /\ k >= 1 -> Timestamp(k - 1)
      [] fault = "swap" /\ k = 0 -> Timestamp(1)
      [] fault = "swap" /\ k = 1 -> Timestamp(0)
      [] OTHER -> Timestamp(k)

NoRow == [date |-> NoDate, close |-> NaN, high |-> NaN, low |-> NaN,
          pct_chg |-> NaN, idx_c |-> NaN, ma7 |-> NaN, idx_ma5 |-> NaN,
          q2 |-> NaN, xg |-> FALSE]

RECURSIVE SumSeq(_)
SumSeq(s) == IF s = << >> THEN 0 ELSE Head(s) + SumSeq(Tail(s))

RECURSIVE MaxSeq(_)
MaxSeq(s) == IF Len(s) = 1 THEN s[1]
             ELSE LET m == MaxSeq(Tail(s)) IN IF s[1] > m THEN s[1] ELSE m

\* the last w values of a column, after appending x
Push(win, x, w) ==
    LET a == Append(win, x)
    IN  IF Len(a) > w THEN SubSeq(a, Len(a) - w + 1, Len(a)) ELSE a

\* Series.rolling(w).mean() / .max(): NaN until the window holds w values
RollingMean(win, w) == IF Len(win) < w THEN NaN ELSE Norm(SumSeq(win), w)
\* mutant: rolling(w, min_periods=1).max()
RollingMaxPartial(win, w) == IF Len(win) < 1 THEN NaN ELSE F(MaxSeq(win))
RollingMax(win, w) == IF Len(win) < w THEN NaN ELSE F(MaxSeq(win))

\* Series.diff(): NaN on the first row
Diff(x, before) == FSub(x, before)

\* one step of Series.ewm(span=6, adjust=False).mean(): alpha = 2/(span+1);
\* a leading NaN is skipped and the first value starts the recursion
Alpha == Norm(2, EwmSpan + 1)
Ewm(y, x) ==
    IF x.nan THEN y
    ELSE IF y.nan THEN x
    ELSE FRound(FAdd(FMul(FSub(F(1), Alpha), y), FMul(Alpha, x)))

NoEma == [s1 |-> NaN, s2 |-> NaN, a1 |-> NaN, a2 |-> NaN]

EwmStep(e, q1) ==
    LET s1 == Ewm(e.s1, q1)
        a1 == Ewm(e.a1, FAbs(q1))
    IN  [s1 |-> s1, s2 |-> Ewm(e.s2, s1), a1 |-> a1, a2 |-> Ewm(e.a2, a1)]

\* Series.replace(0, np.nan)
Replace0(x) == IF FEq(x, F(0)) THEN NaN ELSE x

Q2(e) == FDiv(FMul(F(100), e.s2), Replace0(e.a2))

HotLevel == Norm(19, 2)

\* (close - ma7) / ma7 * 100
Bias(close, ma7) == FMul(FDiv(FSub(close, ma7), ma7), F(100))

\* mutant: the signal without its deviation-from-ma7 guard
XgNoBias(r, p, rmax) ==
    /\ FGt(r.idx_c, r.idx_ma5)
    /\ FGt(rmax, HotLevel)
    /\ FGt(r.q2, p.q2)
    /\ FGt(r.q2, F(Q2Floor))
    /\ FGt(r.ma7, p.ma7)
    /\ FGt(r.close, p.high)

\* mutant: the signal without its market regime filter
XgNoRegime(r, p, rmax) ==
    /\ FGt(rmax, HotLevel)
    /\ FGt(r.q2, p.q2)
    /\ FGt(r.q2, F(Q2Floor))
    /\ FGt(r.ma7, p.ma7)
    /\ FGt(r.close, p.high)
    /\ FLe(Bias(r.close, r.ma7), F(BiasLimit))

\* df['xg'] of one row: r the row with its indicator columns, p the row
\* before it, rmax the 30-row rolling maximum of pct_chg
Xg(r, p, rmax) ==
    /\ FGt(r.idx_c, r.idx_ma5)
    /\ FGt(rmax, HotLevel)
    /\ FGt(r.q2, p.q2)
    /\ FGt(r.q2, F(Q2Floor))
    /\ FGt(r.ma7, p.ma7)
    /\ FGt(r.close, p.high)
    /\ FLe(Bias(r.close, r.ma7), F(BiasLimit))

\* the raw fields of row k
RawRow(k, c, r, hot, step) ==
    [date |-> Timestamp(k), close |-> F(c), high |-> F(c + r), low |-> F(c - r),
     pct_chg |-> F(IF k = hot THEN PctLevels[2] ELSE PctLevels[1]),
     idx_c |-> F(3000 + step * k)]

\* row k with its indicator columns
FullRow(raw, p, wc, wi, wp, e) ==
    LET base == [date |-> raw.date, close |-> raw.close, high |-> raw.high,
                 low |-> raw.low, pct_chg |-> raw.pct_chg, idx_c |-> raw.idx_c,
                 ma7 |-> RollingMean(wc, Ma7Window),
                 idx_ma5 |-> RollingMean(wi, IdxWindow),
                 q2 |-> Q2(e), xg |-> FALSE]
    IN  [base EXCEPT !.xg = Xg(base, p, RollingMax(wp, PctWindow))]

----------------------------------------------------------------------------
(* The price path fed to the loop.                                         *)

OnTape(t, tape) == Len(t) < Len(tape) /\ SubSeq(tape, 1, Len(t)) = t

LeadOf(fam) ==
    CASE fam = "degenerate" -> ZeroLead
      [] fam = "scenario" -> ScenarioLead
      [] OTHER -> LeadCloses

RangesOf(fam) == IF fam = "scenario" THEN {0} ELSE Ranges

NextCloses(t) ==
    CASE family = "degenerate" ->
            (IF OnTape(t, ZeroTape) THEN {ZeroTape[Len(t) + 1]} ELSE {})
      [] family = "scenario" ->
            (IF OnTape(t, ScenarioTape) THEN {ScenarioTape[Len(t) + 1]} ELSE {})
      [] OTHER ->
            (IF Len(t) < MaxTail THEN FreeCloses ELSE {})
            \cup {tape[Len(t) + 1] : tape \in {T \in Tapes : OnTape(t, T)}}

----------------------------------------------------------------------------
(* The trade engine.                                                       *)

\* the script before the call of fetch_data_robust, with the engine's
\* variables as lines 175-180 will set them
Begin ==
    /\ pc = "fetch"
    /\ attempt = 0
    /\ met = "none"
    /\ fetched = "pending"
    /\ shown = "none"
    /\ close_col = << >>
    /\ i = 0
    /\ row = NoRow
    /\ prev = NoRow
    /\ win_close = << >>
    /\ win_idx = << >>
    /\ win_pct = << >>
    /\ ema = NoEma
    /\ xg_col = << >>
    /\ tail = << >>
    /\ hot_day \in HotDays
    /\ idx_step \in IdxSteps
    /\ cash = F(InitCashDefault)
    /\ shares = F(0)
    /\ stop_low = F(0)
    /\ b_date = NoDate
    /\ b_price = F(0)
    /\ trade_logs = << >>
    /\ history = << >>
    /\ n_entries = 0

Init ==
    /\ Begin
    /\ family \in Families
    /\ date_fault = "none"

\* mutant: the handler tests an attempt number the loop never reaches, so
\* the loop runs out and the call returns None without reporting the error
FetchAttemptSilent ==
    /\ pc = "fetch"
    /\ \E outcome \in Outcomes :
          /\ met' = outcome
          /\ CASE outcome \in {"stock_raises", "index_raises"} ->
                    IF attempt + 1 < MaxAttempts
                    THEN /\ attempt' = attempt + 1
                         /\ UNCHANGED << pc, fetched, shown >>
                    ELSE /\ pc' = "returned"
                         /\ fetched' = "none"
                         /\ UNCHANGED << attempt, shown >>
               [] outcome = "stock_empty" ->
                    /\ shown' = "warning"
                    /\ fetched' = "none"
                    /\ pc' = "returned"
                    /\ UNCHANGED attempt
               [] OTHER ->
                    /\ fetched' = (IF outcome = "merged" THEN "frame" ELSE "empty_frame")
                    /\ pc' = "returned"
                    /\ UNCHANGED << attempt, shown >>
    /\ UNCHANGED << frame, feed, series, account, history, n_entries >>

\* one pass of the retry loop of fetch_data_robust. An exception of either
\* fetch is caught: the last attempt reports it and returns None, any other
\* goes on to the next; a missing or empty stock frame returns None with a
\* warning; otherwise the merged frame is returned, which is empty when
\* dropna has removed every row.
FetchAttempt ==
    /\ pc = "fetch"
    /\ \E outcome \in Outcomes :
          /\ met' = outcome
          /\ CASE outcome \in {"stock_raises", "index_raises"} ->
                    IF attempt = LastAttempt
                    THEN /\ shown' = "error"
                         /\ fetched' = "none"
                         /\ pc' = "returned"
                         /\ UNCHANGED attempt
                    ELSE IF attempt + 1 < MaxAttempts
                    THEN /\ attempt' = attempt + 1
                         /\ UNCHANGED << pc, fetched, shown >>
                    ELSE /\ pc' = "returned"
                         /\ fetched' = "none"
                         /\ UNCHANGED << attempt, shown >>
               [] outcome = "stock_empty" ->
                    /\ shown' = "warning"
                    /\ fetched' = "none"
                    /\ pc' = "returned"
                    /\ UNCHANGED attempt
               [] OTHER ->
                    /\ fetched' = (IF outcome = "merged" THEN "frame" ELSE "empty_frame")
                    /\ pc' = "returned"
                    /\ UNCHANGED << attempt, shown >>
    /\ UNCHANGED << frame, feed, series, account, history, n_entries >>

\* if df is not None and not df.empty: the core runs, else the script ends;
\* the locals of the finished call are gone
Enter ==
    /\ pc = "returned"
    /\ pc' = (IF fetched = "frame" THEN "load" ELSE "idle")
    /\ attempt' = 0
    /\ met' = "none"
    /\ UNCHANGED << fetched, shown, frame, feed, series, account, history, n_entries >>

\* row = df.iloc[i]
Take(c, r, t) ==
    LET raw == [RawRow(i, c, r, hot_day, idx_step) EXCEPT
                    !.date = DateOf(i, date_fault)]
        wc == Push(win_close, c, Ma7Window)
        wi == Push(win_idx, raw.idx_c.n, IdxWindow)
        wp == Push(win_pct, raw.pct_chg.n, PctWindow)
        e == EwmStep(ema, Diff(raw.close, prev.close))
        full == FullRow(raw, prev, wc, wi, wp, e)
    IN  /\ row' = full
        /\ xg_col' = Append(xg_col, full.xg)
        /\ close_col' = Append(close_col, full.close)
        /\ win_close' = wc
        /\ win_idx' = wi
        /\ win_pct' = wp
        /\ ema' = e
        /\ tail' = t

LoadRow ==
    /\ pc = "load"
    /\ \/ /\ tail = << >>
          /\ i < MaxLead
          /\ \E c \in LeadOf(family) : Take(c, 0, tail)
       \/ \E c \in NextCloses(tail), r \in RangesOf(family) : Take(c, r, Append(tail, c))
    /\ pc' = "stop"
    /\ UNCHANGED << i, prev, hot_day, idx_step, series, call, account, history, n_entries >>

\* the record appended to trade_logs
Fmt2(x) == IF IsNum(x) THEN [text |-> "num", cents |-> Rnd(100 * x.n, x.d)]
           ELSE [text |-> (IF x.nan THEN "nan" ELSE "inf"), cents |-> x.n]

\* mutant: the gain taken against the exit price
ReturnRateOnExit(sell_price, buy_price) ==
    FMul(FDiv(FSub(sell_price, buy_price), sell_price), F(100))

ReturnRate(sell_price, buy_price) ==
    FMul(FDiv(FSub(sell_price, buy_price), buy_price), F(100))

TradeLog(bd, r, bp, sell_price) ==
    [buy_date |-> ToDate(bd), sell_date |-> ToDate(r.date),
     buy_price |-> Fmt2(bp), sell_price |-> Fmt2(sell_price),
     net_return |-> Fmt2(ReturnRate(sell_price, bp))]

\* mutant: only the fixed stop liquidates
StopHitStopOnly(r, stop) == FLt(r.close, stop)

\* close < stop_low or close < ma7
StopHit(r, stop) == FLt(r.close, stop) \/ FLt(r.close, r.ma7)

\* mutant: a trailing stop, raised to the low of every row the position survives
StopLossTrailing ==
    /\ pc = "stop"
    /\ IF FGt(shares, F(0)) /\ StopHit(row, stop_low)
       THEN /\ cash' = FMul(shares, row.close)
            /\ trade_logs' = Append(trade_logs, TradeLog(b_date, row, b_price, row.close))
            /\ shares' = F(0)
            /\ stop_low' = stop_low
       ELSE /\ UNCHANGED << cash, trade_logs, shares >>
            /\ stop_low' = IF FGt(shares, F(0)) /\ FGt(row.low, stop_low)
                            THEN row.low ELSE stop_low
    /\ pc' = "buy"
    /\ UNCHANGED << frame, feed, series, call, b_date, b_price, history, n_entries >>

\* mutant: the liquidation realised at the entry price
StopLossAtCost ==
    /\ pc = "stop"
    /\ IF FGt(shares, F(0)) /\ StopHit(row, stop_low)
       THEN /\ cash' = FMul(shares, b_price)
            /\ trade_logs' = Append(trade_logs, TradeLog(b_date, row, b_price, row.close))
            /\ shares' = F(0)
       ELSE UNCHANGED << cash, trade_logs, shares >>
    /\ pc' = "buy"
    /\ UNCHANGED << frame, feed, series, call, stop_low, b_date, b_price, history, n_entries >>

\* b_date.date() raises AttributeError while b_date is still None: the script
\* stops there, after `cash = shares * sell_price`
StopLoss ==
    /\ pc = "stop"
    /\ IF FGt(shares, F(0)) /\ StopHit(row, stop_low)
       THEN IF b_date = NoDate
            THEN /\ cash' = FMul(shares, row.close)
                 /\ pc' = "error"
                 /\ UNCHANGED << trade_logs, shares >>
            ELSE /\ cash' = FMul(shares, row.close)
                 /\ trade_logs' = Append(trade_logs, TradeLog(b_date, row, b_price, row.close))
                 /\ shares' = F(0)
                 /\ pc' = "buy"
       ELSE /\ UNCHANGED << cash, trade_logs, shares >>
            /\ pc' = "buy"
    /\ UNCHANGED << frame, feed, series, call, stop_low, b_date, b_price, history, n_entries >>

\* mutant: no entry on the row a position was just liquidated on
BuyHitNoReentry(r, sh) ==
    /\ r.xg
    /\ FEq(sh, F(0))
    /\ ~(Len(trade_logs) > 0 /\ trade_logs[Len(trade_logs)].sell_date = ToDate(r.date))

\* mutant: a buy on any row that finds the account flat, signal or not
BuyHitAnyRow(r, sh) == FEq(sh, F(0))

\* mutant: every signal buys, flat or not
BuyHitPyramids(r, sh) == r.xg

BuyHit(r, sh) == r.xg /\ FEq(sh, F(0))

\* mutant: the buy block without `cash = 0`
BuyKeepsCash ==
    /\ pc = "buy"
    /\ IF BuyHit(row, shares)
       THEN /\ b_date' = row.date
            /\ b_price' = row.close
            /\ shares' = FDiv(cash, row.close)
            /\ cash' = cash
            /\ stop_low' = row.low
            /\ n_entries' = n_entries + 1
       ELSE UNCHANGED << b_date, b_price, shares, cash, stop_low, n_entries >>
    /\ pc' = "record"
    /\ UNCHANGED << frame, feed, series, call, trade_logs, history >>

\* mutant: the buy block taking the entry date from the row before
BuyDatePrevRow ==
    /\ pc = "buy"
    /\ IF BuyHit(row, shares)
       THEN /\ b_date' = prev.date
            /\ b_price' = row.close
            /\ shares' = FDiv(cash, row.close)
            /\ cash' = F(0)
            /\ stop_low' = row.low
            /\ n_entries' = n_entries + 1
       ELSE UNCHANGED << b_date, b_price, shares, cash, stop_low, n_entries >>
    /\ pc' = "record"
    /\ UNCHANGED << frame, feed, series, call, trade_logs, history >>

\* mutant: the exit condition tested again right after the entry, on its row
BuyThenStop ==
    /\ pc = "buy"
    /\ IF BuyHit(row, shares)
       THEN /\ b_date' = row.date
            /\ b_price' = row.close
            /\ stop_low' = row.low
            /\ n_entries' = n_entries + 1
            /\ IF StopHit(row, row.low)
               THEN /\ cash' = FMul(FDiv(cash, row.close), row.close)
                    /\ shares' = F(0)
                    /\ trade_logs' = Append(trade_logs,
                                            TradeLog(row.date, row, row.close, row.close))
               ELSE /\ shares' = FDiv(cash, row.close)
                    /\ cash' = F(0)
                    /\ UNCHANGED trade_logs
       ELSE UNCHANGED << b_date, b_price, shares, cash, stop_low, n_entries, trade_logs >>
    /\ pc' = "record"
    /\ UNCHANGED << frame, feed, series, call, history >>

Buy ==
    /\ pc = "buy"
    /\ IF BuyHit(row, shares)
       THEN /\ b_date' = row.date
            /\ b_price' = row.close
            /\ shares' = FDiv(cash, row.close)
            /\ cash' = F(0)
            /\ stop_low' = row.low
            /\ n_entries' = n_entries + 1
       ELSE UNCHANGED << b_date, b_price, shares, cash, stop_low, n_entries >>
    /\ pc' = "record"
    /\ UNCHANGED << frame, feed, series, call, trade_logs, history >>

\* mutant: the holdings alone, without the cash
CurrentValueSharesOnly(c, sh, r) == FMul(sh, r.close)

\* mutant: the holdings valued at the entry price
CurrentValueAtCost(c, sh, r) == FAdd(c, FMul(sh, b_price))

CurrentValue(c, sh, r) == FAdd(c, FMul(sh, r.close))

\* mutant: a point is appended only when the value has changed
RecordOnChange ==
    /\ pc = "record"
    /\ history' = IF history # << >> /\ history[Len(history)] = CurrentValue(cash, shares, row)
                  THEN history
                  ELSE Append(history, CurrentValue(cash, shares, row))
    /\ i' = i + 1
    /\ prev' = row
    /\ pc' = "load"
    /\ UNCHANGED << row, win_close, win_idx, win_pct, ema, xg_col, close_col,
                    feed, series, call, account, n_entries >>

Record ==
    /\ pc = "record"
    /\ history' = Append(history, CurrentValue(cash, shares, row))
    /\ i' = i + 1
    /\ prev' = row
    /\ pc' = "load"
    /\ UNCHANGED << row, win_close, win_idx, win_pct, ema, xg_col, close_col,
                    feed, series, call, account, n_entries >>

\* mutant: an open position is liquidated when the loop ends
FinishLiquidates ==
    /\ pc = "load"
    /\ i >= 1
    /\ pc' = "done"
    /\ IF FGt(shares, F(0))
       THEN /\ cash' = FMul(shares, row.close)
            /\ trade_logs' = Append(trade_logs, TradeLog(b_date, row, b_price, row.close))
            /\ shares' = F(0)
       ELSE UNCHANGED << cash, trade_logs, shares >>
    /\ UNCHANGED << frame, feed, series, call, stop_low, b_date, b_price, history, n_entries >>

\* signal_count = len(df[df['xg']])
SignalCount == Cardinality({k \in 1 .. Len(xg_col) : xg_col[k]})

\* the loop ends: df['balance'] = history
Finish ==
    /\ pc = "load"
    /\ i >= 1
    /\ pc' = "done"
    /\ UNCHANGED << frame, feed, series, call, account, history, n_entries >>

Next == FetchAttempt \/ Enter \/ LoadRow \/ StopLoss \/ Buy \/ Record \/ Finish

Spec == Init /\ [][Next]_vars

\* the same script on the scenario series with its dates out of order
InitDates ==
    /\ Begin
    /\ family = "scenario"
    /\ date_fault \in DateFaults \ {"none"}

SpecDates == InitDates /\ [][Next]_vars

\* the same script on a series with closes at and below zero
InitDegenerate ==
    /\ Begin
    /\ family = "degenerate"
    /\ date_fault = "none"

SpecDegenerate == InitDegenerate /\ [][Next]_vars

----------------------------------------------------------------------------
(* Properties.                                                             *)

IsPos(x) == ~x.nan /\ x.n > 0
IsZero(x) == ~x.nan /\ x.n = 0 /\ x.d # 0
Less(x, y) == ~x.nan /\ ~y.nan /\ x.n * y.d < y.n * x.d
LastLog == trade_logs[Len(trade_logs)]
InBar == pc \in {"stop", "buy", "record"}
\* a position was liquidated on the row in progress
JustSold == Len(trade_logs) > 0 /\ LastLog.sell_date = row.date.day
\* a position was opened on the row in progress
JustBought == IsPos(shares) /\ b_date = row.date
NoSignalYet == \A k \in 1 .. Len(xg_col) : ~xg_col[k]
FlatCurve == \A k \in 1 .. Len(history) : history[k] = F(InitCashDefault)

\* C1: between bars (and initially) the account is either flat, cash > 0 and
\* shares = 0, or long, cash = 0 and shares > 0; never both positive.
C1_Conservation ==
    pc \in {"load", "stop", "done"} =>
        /\ \/ IsPos(cash) /\ IsZero(shares)
           \/ IsZero(cash) /\ IsPos(shares)
        /\ ~(IsPos(cash) /\ IsPos(shares))

C1_Witness == pc = "load" /\ IsPos(shares) /\ IsZero(cash) /\ Len(trade_logs) > 0

\* C2: a row that finds the account long liquidates it exactly when
\* close < stop_low or close < ma7; the liquidation sets cash = shares * close,
\* appends one record with the stored entry date and price and the row's date
\* and close, and clears shares; no other step appends a record.
C2_ExitRule ==
    [][ LET hit == /\ pc = "stop"
                   /\ IsPos(shares)
                   /\ (Less(row.close, stop_low) \/ Less(row.close, row.ma7))
        IN  IF hit
            THEN /\ cash' = FMul(shares, row.close)
                 /\ Len(trade_logs') = Len(trade_logs) + 1
                 /\ SubSeq(trade_logs', 1, Len(trade_logs)) = trade_logs
                 /\ LET rec == trade_logs'[Len(trade_logs')]
                    IN  /\ rec.buy_date = b_date.day
                        /\ rec.sell_date = row.date.day
                        /\ rec.buy_price.cents * b_price.d = 100 * b_price.n
                        /\ rec.sell_price.cents * row.close.d = 100 * row.close.n
                 /\ IsZero(shares')
            ELSE /\ trade_logs' = trade_logs
                 /\ pc = "stop" => (cash' = cash /\ shares' = shares)
      ]_vars

C2_Witness == pc = "buy" /\ JustSold /\ IsZero(shares) /\ IsPos(cash)

\* C3: the entry check of a row runs after its exit check, on the account the
\* exit check left; flat with xg true it opens a position with
\* shares = cash / close, cash = 0, entry date and price of the row and
\* stop_low = low of the row; so a row that liquidated a position and has xg
\* true re-enters on that row at the close it sold at.
C3_EntryRule ==
    [][ /\ pc = "stop" => (pc' = "buy" /\ row' = row)
        /\ pc = "buy" =>
             IF row.xg /\ IsZero(shares)
             THEN /\ shares' = FDiv(cash, row.close)
                  /\ IsZero(cash')
                  /\ b_date' = row.date
                  /\ b_price' = row.close
                  /\ stop_low' = row.low
             ELSE UNCHANGED << shares, cash, b_date, b_price, stop_low >>
        /\ (pc = "buy" /\ JustSold /\ row.xg) =>
             /\ IsPos(shares')
             /\ b_date'.day = LastLog.sell_date
             /\ LastLog.sell_price.cents * b_price'.d = 100 * b_price'.n
      ]_vars

C3_Witness == pc = "record" /\ JustSold /\ JustBought

\* C4: stop_low is set to the low of the row that opens a position and no
\* step changes it while that position stays open.
C4_StopFixed ==
    [][ /\ (pc = "buy" /\ IsZero(shares) /\ IsPos(shares')) => stop_low' = row.low
        /\ (IsPos(shares) /\ IsPos(shares')) => stop_low' = stop_low
      ]_vars

C4_Witness ==
    /\ pc = "buy"
    /\ IsPos(shares)
    /\ row.date.day > b_date.day
    /\ row.low # stop_low
    /\ row.ma7 # prev.ma7

\* C5: for consecutive trade records k and k+1, the entry date of k+1 equals
\* the exit date of k when the row of that exit had xg true, and is strictly
\* after it otherwise; an open position is placed the same way after the
\* last record.
C5_LogMonotone ==
    /\ \A k \in 1 .. (Len(trade_logs) - 1) :
          IF xg_col[trade_logs[k].sell_date]
          THEN trade_logs[k + 1].buy_date = trade_logs[k].sell_date
          ELSE trade_logs[k + 1].buy_date > trade_logs[k].sell_date
    /\ (IsPos(shares) /\ Len(trade_logs) > 0) =>
          IF xg_col[LastLog.sell_date]
          THEN b_date.day = LastLog.sell_date
          ELSE b_date.day > LastLog.sell_date

C5_Witness ==
    /\ Len(trade_logs) >= 2
    /\ trade_logs[2].buy_date > trade_logs[1].sell_date

\* C6: while no row has had xg true, the trade log is empty and every equity
\* point equals the initial cash.
C6_NoSignal == NoSignalYet => (trade_logs = << >> /\ FlatCurve)

C6_Witness ==
    /\ pc = "done"
    /\ NoSignalYet
    /\ Len(history) > PctWindow
    /\ hot_day >= 0
    /\ idx_step = 1
    /\ Len(tail) >= 2

\* C7: one equity point per row: between rows the curve is as long as the
\* rows taken, inside a row it is one short, and at the end it has one point
\* for every row of the frame.
C7_CurveLength ==
    /\ Len(history) = i
    /\ pc \in {"load", "done"} => Len(history) = Len(xg_col)
    /\ InBar => Len(history) + 1 = Len(xg_col)

C7_Witness ==
    /\ pc = "done"
    /\ Len(history) > PctWindow
    /\ Len(trade_logs) > 0
    /\ \E k \in 2 .. Len(history) : history[k] = history[k - 1]

\* C8: when the pass ends with the simulator long after the last row, the
\* end of the pass leaves the position open and writes no trade record: the
\* records number one less than the entries, none of them carries the open
\* entry's date, and the last equity point is shares * close of the last
\* row; when it ends flat, the records number the entries.
C8_OpenAtEnd ==
    [][(pc = "load" /\ pc' = "done") =>
        IF IsPos(shares)
        THEN /\ shares' = shares
             /\ Len(trade_logs') = n_entries' - 1
             /\ history'[Len(history')] = FMul(shares', row'.close)
             /\ \A k \in 1 .. Len(trade_logs') :
                    trade_logs'[k].buy_date # b_date'.day
        ELSE /\ IsZero(shares')
             /\ Len(trade_logs') = n_entries']_vars

C8_Witness == pc = "done" /\ IsPos(shares) /\ Len(trade_logs) >= 1

\* C9: xg of a row is true exactly when every input it reads is defined and
\* the seven conditions hold; so no position is opened on a row whose ma7,
\* idx_ma5, q2 or 30-row maximum is undefined.
C9_Defined ==
    /\ ~row.idx_ma5.nan
    /\ Len(win_pct) = PctWindow
    /\ ~row.q2.nan /\ ~prev.q2.nan
    /\ ~row.ma7.nan /\ ~prev.ma7.nan
    /\ ~prev.high.nan
    /\ row.ma7.n # 0

C9_Seven ==
    /\ row.idx_c.n * row.idx_ma5.d > row.idx_ma5.n * row.idx_c.d
    /\ \E k \in 1 .. Len(win_pct) : 2 * win_pct[k] > 19
    /\ row.q2.n * prev.q2.d > prev.q2.n * row.q2.d
    /\ row.q2.n > Q2Floor * row.q2.d
    /\ row.ma7.n * prev.ma7.d > prev.ma7.n * row.ma7.d
    /\ row.close.n * prev.high.d > prev.high.n * row.close.d
    /\ LET dev == row.close.n * row.ma7.d - row.ma7.n * row.close.d
           den == row.ma7.n * row.close.d
       IN  IF den > 0 THEN 100 * dev <= BiasLimit * den
                      ELSE 100 * dev >= BiasLimit * den

C9_SignalDef ==
    InBar =>
        /\ row.xg <=> (C9_Defined /\ C9_Seven)
        /\ xg_col[Len(xg_col)] = row.xg
        /\ (pc = "record" /\ JustBought) =>
              /\ ~row.ma7.nan /\ ~row.idx_ma5.nan /\ ~row.q2.nan
              /\ Len(win_pct) = PctWindow

C9_Witness == pc = "record" /\ row.xg /\ JustBought /\ n_entries = 1

\* C10: while the frame has fewer than 30 rows, no row has xg true, no
\* position has been opened, the script has not raised and every equity point
\* equals the initial cash.
C10_ShortSeries ==
    Len(xg_col) < PctWindow =>
        /\ NoSignalYet
        /\ pc # "error"
        /\ n_entries = 0
        /\ IsZero(shares)
        /\ trade_logs = << >>
        /\ FlatCurve

C10_Witness ==
    /\ pc = "record"
    /\ Len(xg_col) < PctWindow
    /\ hot_day >= 0 /\ hot_day < Len(xg_col)
    /\ FGt(row.idx_c, row.idx_ma5)
    /\ FGt(row.q2, prev.q2)
    /\ FGt(row.q2, F(Q2Floor))
    /\ FGt(row.ma7, prev.ma7)
    /\ FGt(row.close, prev.high)
    /\ FLe(Bias(row.close, row.ma7), F(BiasLimit))

\* C11: a frame whose dates are not strictly increasing and unique is refused
\* before the simulation: the loop never works on a row whose date is not
\* after the date of the row before it.
C11_DatesChecked == (InBar /\ i >= 1) => row.date.day > prev.date.day

\* the close of the row a record was opened / closed on
EntryClose(rec) == close_col[rec.buy_date]
ExitClose(rec) == close_col[rec.sell_date]

\* C12: every trade record carries the close of its entry row and of its exit
\* row as prices, and as return the two-decimal text of
\* (exit - entry) / entry * 100 of these two closes.
C12_ReturnComputation ==
    \A k \in 1 .. Len(trade_logs) :
        LET rec == trade_logs[k]
            e == EntryClose(rec)
            x == ExitClose(rec)
            num == 10000 * (x.n * e.d - e.n * x.d)
            den == x.d * e.n
        IN  /\ rec.buy_price.cents * e.d = 100 * e.n
            /\ rec.sell_price.cents * x.d = 100 * x.n
            /\ rec.net_return.text = "num"
            /\ den > 0
            /\ 2 * Abs(rec.net_return.cents * den - num) <= den

C12_Witness ==
    /\ Len(trade_logs) = 2
    /\ trade_logs[1].net_return.cents > 0
    /\ trade_logs[2].net_return.cents < 0
    /\ EntryClose(trade_logs[1]) # EntryClose(trade_logs[2])

\* exit / entry of every record, multiplied up
RECURSIVE Growth(_)
Growth(logs) ==
    IF logs = << >> THEN F(1)
    ELSE LET rec == logs[Len(logs)]
         IN  FMul(Growth(SubSeq(logs, 1, Len(logs) - 1)),
                  Norm(ExitClose(rec).n * EntryClose(rec).d,
                       ExitClose(rec).d * EntryClose(rec).n))

\* C13: whenever the account is flat its cash is the initial cash times
\* exit / entry of every closed trade, and so is the equity point of a row
\* that ends flat; 100000 through a single trade from 10.00 to 12.00 is a
\* recorded return of 20.00 and an equity of 120000.
C13_Compounding ==
    /\ IsZero(shares) => cash = FMul(F(InitCashDefault), Growth(trade_logs))
    /\ (IsZero(shares) /\ pc \in {"load", "done"} /\ history # << >>) =>
           history[Len(history)] = FMul(F(InitCashDefault), Growth(trade_logs))
    /\ ( /\ IsZero(shares) /\ pc \in {"load", "done"}
         /\ Len(trade_logs) = 1
         /\ trade_logs[1].buy_price.cents = 1000
         /\ trade_logs[1].sell_price.cents = 1200 ) =>
           /\ trade_logs[1].net_return.cents = 2000
           /\ history[Len(history)] = F(120000)

C13_Witness ==
    /\ pc = "done"
    /\ IsZero(shares)
    /\ Len(trade_logs) = 1
    /\ trade_logs[1].buy_price.cents = 1000
    /\ trade_logs[1].sell_price.cents = 1200
    /\ cash = F(120000)

\* C14: a row on which the doubly smoothed absolute change a2 is zero, or on
\* which ma7 is zero, has xg false, and no position is opened on it.
C14_DegenerateFalse ==
    (InBar /\ (IsZero(ema.a2) \/ IsZero(row.ma7))) =>
        /\ ~row.xg
        /\ ~(pc = "record" /\ JustBought)

\* C15: a row whose index close is not above its 5-row mean has xg false
\* and opens no position; on a constant index, which equals its mean on
\* every row that has one, no row has xg true, no position is opened and no
\* trade is recorded, whatever the other six conditions are.
C15_RegimeFilter ==
    /\ (InBar /\ ~Less(row.idx_ma5, row.idx_c)) =>
           /\ ~row.xg
           /\ ~(pc = "record" /\ JustBought)
    /\ idx_step = 0 =>
           /\ InBar => (row.idx_ma5.nan \/ row.idx_ma5 = row.idx_c)
           /\ NoSignalYet
           /\ n_entries = 0
           /\ IsZero(shares)
           /\ trade_logs = << >>

C15_Witness ==
    /\ pc = "record"
    /\ idx_step = 0
    /\ row.idx_ma5 = row.idx_c
    /\ Less(HotLevel, RollingMax(win_pct, PctWindow))
    /\ Less(prev.q2, row.q2)
    /\ Less(F(Q2Floor), row.q2)
    /\ Less(prev.ma7, row.ma7)
    /\ Less(prev.high, row.close)
    /\ FLe(Bias(row.close, row.ma7), F(BiasLimit))
    /\ ~row.xg
    /\ IsZero(shares)

\* a position was open at the end of row k
LongAtEnd(k) ==
    \/ \E n \in 1 .. Len(trade_logs) :
          trade_logs[n].buy_date <= k /\ k < trade_logs[n].sell_date
    \/ IsPos(shares) /\ b_date.day <= k

\* cash + shares * close on row r
Worth(c, sh, r) == FAdd(c, FMul(sh, r.close))

C16_Points ==
    /\ (pc \in {"load", "done"} /\ history # << >>) =>
           history[Len(history)] = Worth(cash, shares, row)
    /\ \A k \in 1 .. (Len(history) - 1) :
           (~LongAtEnd(k) /\ ~LongAtEnd(k + 1)) => history[k + 1] = history[k]

C16_Neutral ==
    /\ pc \in {"stop", "buy"} => Worth(cash', shares', row) = Worth(cash, shares, row)
    /\ pc = "record" =>
           /\ Len(history') = Len(history) + 1
           /\ history'[Len(history')] = Worth(cash, shares, row)

\* C16: the equity point of a row is cash + shares * close of that row, taken
\* after its exit and entry checks; neither check changes that sum on its
\* own row; and over consecutive rows that end flat the point stays the same.
C16_EquityRecording == []C16_Points /\ [][C16_Neutral]_vars

C16_Witness ==
    /\ pc = "load"
    /\ JustSold
    /\ JustBought
    /\ history[Len(history)] = Worth(cash, shares, row)
    /\ history[Len(history)] # F(InitCashDefault)
    /\ history[1] = history[2]

Raised == {"stock_raises", "index_raises"}

C17_Bound ==
    /\ attempt \in 0 .. (MaxAttempts - 1)
    /\ pc = "fetch" <=> fetched = "pending"
    /\ fetched = "none" => shown \in {"warning", "error"}
    /\ fetched \in {"pending", "frame", "empty_frame"} => shown = "none"
    /\ pc \in {"load", "stop", "buy", "record", "done"} => fetched = "frame"

C17_Step ==
    pc = "fetch" =>
        CASE met' \in Raised /\ attempt < MaxAttempts - 1 ->
                /\ pc' = "fetch"
                /\ attempt' = attempt + 1
                /\ fetched' = "pending"
                /\ shown' = "none"
          [] met' \in Raised /\ attempt = MaxAttempts - 1 ->
                /\ pc' = "returned"
                /\ fetched' = "none"
                /\ shown' = "error"
          [] met' = "stock_empty" ->
                /\ pc' = "returned"
                /\ fetched' = "none"
                /\ shown' = "warning"
                /\ attempt' = attempt
          [] OTHER ->
                /\ met' \in {"merged", "merged_empty"}
                /\ pc' = "returned"
                /\ fetched' \in {"frame", "empty_frame"}
                /\ attempt' = attempt

\* C17: a call of fetch_data_robust makes at most 5 attempts, each either
\* ending the call or moving to the next attempt, so it ends; an attempt that
\* raises is followed by a fresh one unless it is the 5th, which reports the
\* error and returns None; an empty stock frame returns None at once; the
\* first attempt that completes both fetches returns the merged frame.
C17_BoundedRetry == []C17_Bound /\ [][C17_Step]_vars

C17_Witness ==
    /\ pc = "returned"
    /\ attempt = MaxAttempts - 1
    /\ met \in Raised
    /\ fetched = "none"
    /\ shown = "error"

\* C18: on a row that finds the account long and does not meet the exit
\* condition, a true xg changes nothing: no step of the row changes cash,
\* shares, stop_low, the entry date or the entry price, or appends a record.
C18_SignalIgnored ==
    [][ ( /\ InBar
          /\ IsPos(shares)
          /\ row.xg
          /\ ~(Less(row.close, stop_low) \/ Less(row.close, row.ma7)) ) =>
            /\ cash' = cash
            /\ shares' = shares
            /\ stop_low' = stop_low
            /\ b_date' = b_date
            /\ b_price' = b_price
            /\ trade_logs' = trade_logs
      ]_vars

C18_Witness ==
    /\ pc = "record"
    /\ row.xg
    /\ IsPos(shares)
    /\ b_date.day < row.date.day
    /\ row.low # stop_low

\* C19: no position is closed on the row it was opened on: in every trade
\* record the exit date is after the entry date, and a position opened on a
\* row is still open when the row ends, also when the row closed below ma7.
C19_MinHolding ==
    /\ \A k \in 1 .. Len(trade_logs) :
           trade_logs[k].sell_date > trade_logs[k].buy_date
    /\ (pc \in {"record", "load", "done"} /\ b_date = row.date /\ n_entries > 0) =>
           /\ IsPos(shares)
           /\ n_entries = Len(trade_logs) + 1

C19_Witness ==
    /\ pc = "load"
    /\ JustBought
    /\ Less(row.close, row.ma7)
    /\ n_entries = 2

\* C20: every position was opened on a row with xg true, no two positions
\* on the same row, so the entries, and the trade records, never outnumber
\* the rows with xg true that signal_count reports.
C20_EntriesBacked ==
    /\ \A k \in 1 .. Len(trade_logs) : xg_col[trade_logs[k].buy_date]
    /\ IsPos(shares) => xg_col[b_date.day]
    /\ \A j, k \in 1 .. Len(trade_logs) :
           j < k => trade_logs[j].buy_date < trade_logs[k].buy_date
    /\ (IsPos(shares) /\ trade_logs # << >>) => LastLog.buy_date < b_date.day
    /\ Len(trade_logs) <= n_entries
    /\ n_entries <= SignalCount

C20_Witness ==
    /\ pc = "done"
    /\ Len(trade_logs) >= 1
    /\ n_entries >= 1
    /\ SignalCount > n_entries

====
